---- MODULE Spec2Model ----
(***************************************************************************)
(* Model of hwacctools.comp_graph: the matrix / vector / kernel tilers of  *)
(* splitter.py, the GEMM and convolution subgraph emitters built on them,  *)
(* and the Toeplitz (im2col) transform of compute.py.                      *)
(*                                                                         *)
(* Every function of the library is pure, so the state of the model is the *)
(* last call made on the library: the variable call maps the name of the   *)
(* function called to its arguments and to what it returned or raised.     *)
(*                                                                         *)
(* Representation of numpy values:                                         *)
(*   2-D array         a sequence of rows, each a sequence of integers     *)
(*   0-D / 1-D array   [shape |-> <<>> or <<n>>, data |-> sequence]        *)
(*   3-D / 4-D array   nested sequences, outermost axis first              *)
(* Python lists are sequences; Python indices are 0-based and appear as    *)
(* such in slice bounds and edge names, sequence positions are 1-based.    *)
(***************************************************************************)
EXTENDS Integers, Sequences, FiniteSets, TLC

VARIABLES call, sibling

vars == <<call, sibling>>

\* the function called, its arguments, and its outcome
fn == CHOOSE f \in DOMAIN call : TRUE

args == call[fn].args

ret == call[fn].ret

\* the state after the call f(a) ended with outcome r
Called(f, a, r) == [c \in {f} |-> [args |-> a, ret |-> r]]

(***************************************************************************)
(* Bounds of the model.                                                    *)
(***************************************************************************)
MaxDim == 4
MaxTile == 4
MaxBias == 5
MaxImg == 4
MaxChan == 2
MaxKsize == 4
MaxStride == 2

(***************************************************************************)
(* Arithmetic and numpy helpers.                                           *)
(***************************************************************************)
Min(a, b) == IF a < b THEN a ELSE b

\* len(a) of a 2-D array and of its rows: matrix.shape[0], matrix.shape[1]
Rows(m) == Len(m)

Cols(m) == IF Len(m) = 0 THEN 0 ELSE Len(m[1])

\* matrix.shape
Shape(m) == <<Rows(m), Cols(m)>>

\* a Python slice seq[lo:hi] with 0 <= lo <= hi: it is clipped to the length
PySlice(s, lo, hi) == SubSeq(s, lo + 1, Min(hi, Len(s)))

\* matrix[:, lo:hi]
ColSlice(m, lo, hi) == [r \in 1..Len(m) |-> PySlice(m[r], lo, hi)]

\* matrix[lo:hi]
RowSlice(m, lo, hi) == PySlice(m, lo, hi)

\* n//d + (n%d != 0), the "ceil func" of the tilers
Reps(n, d) == (n \div d) + (IF n % d # 0 THEN 1 ELSE 0)

\* a 1-D numpy array holding the sequence s
Vec(s) == [shape |-> <<Len(s)>>, data |-> s]

\* a 0-D numpy array holding the number v
Scalar(v) == [shape |-> <<>>, data |-> <<v>>]

(***************************************************************************)
(* splitter.py: the tilers.                                                *)
(***************************************************************************)

\* split_matrix_into_chunks with the column slice one element too wide
split_matrix_overlap(matrix, H, W) ==
    LET out == IF Cols(matrix) > W
               THEN [i \in 1..Reps(Cols(matrix), W) |->
                        ColSlice(matrix, W * (i - 1), W * (i - 1) + W + 1)]
               ELSE <<matrix>>
        out_col(mat) == IF Rows(mat) > H
                        THEN [j \in 1..Reps(Rows(mat), H) |->
                                 RowSlice(mat, H * (j - 1), H * (j - 1) + H)]
                        ELSE <<mat>>
    IN  [i \in 1..Len(out) |-> out_col(out[i])]

\* split_matrix_into_chunks with floor instead of ceil: the partial last
\* row group is dropped
split_matrix_floor(matrix, H, W) ==
    LET out == IF Cols(matrix) > W
               THEN [i \in 1..Reps(Cols(matrix), W) |->
                        ColSlice(matrix, W * (i - 1), W * (i - 1) + W)]
               ELSE <<matrix>>
        out_col(mat) == IF Rows(mat) > H
                        THEN [j \in 1..(Rows(mat) \div H) |->
                                 RowSlice(mat, H * (j - 1), H * (j - 1) + H)]
                        ELSE <<mat>>
    IN  [i \in 1..Len(out) |-> out_col(out[i])]

\* split_matrix_into_chunks(matrix,H,W): out is the list of column groups,
\* out2 the list, per column group, of its row chunks
split_matrix_into_chunks(matrix, H, W) ==
    LET out == IF Cols(matrix) > W
               THEN [i \in 1..Reps(Cols(matrix), W) |->
                        ColSlice(matrix, W * (i - 1), W * (i - 1) + W)]
               ELSE <<matrix>>
        out_col(mat) == IF Rows(mat) > H
                        THEN [j \in 1..Reps(Rows(mat), H) |->
                                 RowSlice(mat, H * (j - 1), H * (j - 1) + H)]
                        ELSE <<mat>>
    IN  [i \in 1..Len(out) |-> out_col(out[i])]

\* np.empty(shape): only the shape of the array is ever read
np_empty(shape) == [r \in 1..shape[1] |-> [c \in 1..shape[2] |-> 0]]

\* split_shape_into_chunks with the row limit used for the column split
split_shape_swapped(shape, H, W) ==
    LET matrix == np_empty(shape)
        out == IF Cols(matrix) > H
               THEN [i \in 1..Reps(Cols(matrix), H) |->
                        ColSlice(matrix, H * (i - 1), H * (i - 1) + H)]
               ELSE <<matrix>>
        out_col(mat) == IF Rows(mat) > H
                        THEN [j \in 1..Reps(Rows(mat), H) |->
                                 RowSlice(mat, H * (j - 1), H * (j - 1) + H)]
                        ELSE <<mat>>
    IN  [i \in 1..Len(out) |-> [j \in 1..Len(out_col(out[i])) |->
                                   Shape(out_col(out[i])[j])]]

\* split_shape_into_chunks(shape,H,W): the same two loops on an empty
\* array of that shape, returning the chunks' shapes
split_shape_into_chunks(shape, H, W) ==
    LET matrix == np_empty(shape)
        out == IF Cols(matrix) > W
               THEN [i \in 1..Reps(Cols(matrix), W) |->
                        ColSlice(matrix, W * (i - 1), W * (i - 1) + W)]
               ELSE <<matrix>>
        out_col(mat) == IF Rows(mat) > H
                        THEN [j \in 1..Reps(Rows(mat), H) |->
                                 RowSlice(mat, H * (j - 1), H * (j - 1) + H)]
                        ELSE <<mat>>
    IN  [i \in 1..Len(out) |-> [j \in 1..Len(out_col(out[i])) |->
                                   Shape(out_col(out[i])[j])]]

\* the fill value of zip_longest; list elements are boxed as <<v>>
None == <<>>

\* zip_longest(*(iter(vector),)*W): consecutive W-tuples, the last one
\* filled up with None
zip_longest(data, W) ==
    [k \in 1..Reps(Len(data), W) |->
        [t \in 1..W |-> IF W * (k - 1) + t <= Len(data)
                        THEN <<data[W * (k - 1) + t]>>
                        ELSE None]]

\* i[i != np.array(None)]: the elements of the tuple that are not None
drop_none(tuple) ==
    LET kept == SelectSeq(tuple, LAMBDA e : e # None)
    IN  [t \in 1..Len(kept) |-> kept[t][1]]

\* split_vector_into_chunks that keeps the fill of the last tuple, as zeros
split_vector_padded(vector, W) ==
    LET b == zip_longest(vector.data, W)
    IN  [k \in 1..Len(b) |->
            Vec([t \in 1..W |-> IF b[k][t] = None THEN 0 ELSE b[k][t][1]])]

\* split_vector_into_chunks(vector,W); a 0-D bias is first expanded to 1-D
split_vector_into_chunks(vector, W) ==
    LET v == IF vector.shape = <<>> THEN Vec(vector.data) ELSE vector
        b == zip_longest(v.data, W)
    IN  [k \in 1..Len(b) |-> Vec(drop_none(b[k]))]

\* kernel.shape[1] of a K,C,Fy,Fx kernel
InChannels(kernel) == Len(kernel[1])

\* split_kernel_into_channels(kernel,C): subkernels stays empty unless the
\* kernel has more than C input channels
split_kernel_into_channels(kernel, C) ==
    IF InChannels(kernel) > C
    THEN [i \in 1..Reps(InChannels(kernel), C) |->
             [k \in 1..Len(kernel) |-> PySlice(kernel[k], C * (i - 1), C * (i - 1) + C)]]
    ELSE <<>>

(***************************************************************************)
(* Graph nodes, as the emitters construct them.  A node is a record of its *)
(* class (op), its input and output edge lists, its provenance tag and the *)
(* keyword arguments the emitter passes to its constructor.                *)
(***************************************************************************)

\* a node attribute no one has set
Unset == "unset"

\* the bias of a gemm_node built without one
NoBias == [none |-> TRUE]

\* cnodes.slicer_node(inputs, outputs, col_lim=[lo,hi])
slicer_node(inputs, outputs, col_lim) ==
    [op |-> "slicer_node", inputs |-> inputs, outputs |-> outputs,
     col_lim |-> col_lim, from_type |-> Unset]

\* cnodes.gemm_node(inputs, outputs, matrix)
gemm_node(inputs, outputs, matrix) ==
    [op |-> "gemm_node", inputs |-> inputs, outputs |-> outputs,
     matrix |-> matrix, biases |-> NoBias, from_type |-> Unset]

\* cnodes.add_node(inputs, outputs)
add_node(inputs, outputs) ==
    [op |-> "add_node", inputs |-> inputs, outputs |-> outputs, from_type |-> Unset]

\* cnodes.cat_node(inputs, outputs, axis=...)
cat_node(inputs, outputs, axis) ==
    [op |-> "cat_node", inputs |-> inputs, outputs |-> outputs,
     axis |-> axis, from_type |-> Unset]

\* cnodes.toeplitzizer_node(inputs, outputs, ksize=..., strides=...)
toeplitzizer_node(inputs, outputs, ksize, strides) ==
    [op |-> "toeplitzizer_node", inputs |-> inputs, outputs |-> outputs,
     ksize |-> ksize, strides |-> strides, from_type |-> Unset]

\* cnodes.reshaper_node(inputs, outputs, channels=...)
reshaper_node(inputs, outputs, channels) ==
    [op |-> "reshaper_node", inputs |-> inputs, outputs |-> outputs,
     channels |-> channels, from_type |-> Unset]

\* for node in nodes: node.from_type = tag
tag_all(nodes, tag) == [k \in 1..Len(nodes) |-> [nodes[k] EXCEPT !.from_type = tag]]

\* what a call does: it returns a value or raises an exception
Return(v) == [kind |-> "return", value |-> v]

Raise(e) == [kind |-> "raise", error |-> e]

\* nodes.append / nodes.extend over the column groups: one list
RECURSIVE Flatten(_)
Flatten(lists) ==
    IF Len(lists) = 0 THEN <<>> ELSE lists[1] \o Flatten(Tail(lists))

(***************************************************************************)
(* Edge names: the f-strings of the emitters.  i and j are the 0-based     *)
(* column-group and row-group indices.                                     *)
(***************************************************************************)
tplitz_edge(out) == out \o "_tplitz"

slicer_edge(out, i, j) == out \o "_slicer_" \o ToString(i) \o "-" \o ToString(j)

\* gemm_edge without the identifier of the node it is generated for
gemm_edge_unprefixed(out, i, j) == "gemm_" \o ToString(i) \o "-" \o ToString(j)

gemm_edge(out, i, j) == out \o "_gemm_" \o ToString(i) \o "-" \o ToString(j)

\* adder_edge without the index of the column group
adder_edge_unindexed(out, i) == out \o "_adder"

adder_edge(out, i) == out \o "_adder_" \o ToString(i)

cat_edge(out) == out \o "_cat"

(***************************************************************************)
(* splitter.py: split_gemm_into_chunks.                                    *)
(***************************************************************************)

\* chunk_nodes with the bias chunk given to every gemm node of the group
chunk_nodes_bias_all(out, src, H, i, col, subbias) ==
    LET n == Len(col)
        slicer(j) == slicer_node(src, <<slicer_edge(out, i, j)>>, <<H * j, H * j + H>>)
        gemm(j) == gemm_node(<<slicer_edge(out, i, j)>>, <<gemm_edge(out, i, j)>>, col[j + 1])
    IN  [k \in 1..(2 * n) |->
            IF k % 2 = 1 THEN slicer((k - 1) \div 2)
            ELSE [gemm((k - 2) \div 2) EXCEPT !.biases = subbias]]

\* chunk_nodes with the bias chunk given to the first gemm node of the group
chunk_nodes_bias_first(out, src, H, i, col, subbias) ==
    LET n == Len(col)
        slicer(j) == slicer_node(src, <<slicer_edge(out, i, j)>>, <<H * j, H * j + H>>)
        gemm(j) == gemm_node(<<slicer_edge(out, i, j)>>, <<gemm_edge(out, i, j)>>, col[j + 1])
    IN  [k \in 1..(2 * n) |->
            IF k % 2 = 1 THEN slicer((k - 1) \div 2)
            ELSE IF k = 2 THEN [gemm((k - 2) \div 2) EXCEPT !.biases = subbias]
            ELSE gemm((k - 2) \div 2)]

\* the slicer and gemm nodes of column group i, in emission order, the
\* last gemm node carrying the bias chunk of the group
chunk_nodes(out, src, H, i, col, subbias) ==
    LET n == Len(col)
        slicer(j) == slicer_node(src, <<slicer_edge(out, i, j)>>, <<H * j, H * j + H>>)
        gemm(j) == gemm_node(<<slicer_edge(out, i, j)>>, <<gemm_edge(out, i, j)>>, col[j + 1])
    IN  [k \in 1..(2 * n) |->
            IF k % 2 = 1 THEN slicer((k - 1) \div 2)
            ELSE IF k = 2 * n THEN [gemm((k - 2) \div 2) EXCEPT !.biases = subbias]
            ELSE gemm((k - 2) \div 2)]

\* adder_inputs of column group i
adder_inputs(out, i, col) == [j \in 1..Len(col) |-> gemm_edge(out, i, j - 1)]

\* gemm_column that leaves out the add node of a single row group
gemm_column_skip_add(cnode, H, i, col, subbias) ==
    LET out == cnode.outputs[1]
    IN  chunk_nodes(out, cnode.inputs, H, i, col, subbias)
        \o (IF Len(col) > 1
            THEN <<add_node(adder_inputs(out, i, col), <<adder_edge(out, i)>>)>>
            ELSE <<>>)

\* the body of the loop over the column groups of split_gemm_into_chunks
gemm_column(cnode, H, i, col, subbias) ==
    LET out == cnode.outputs[1]
    IN  chunk_nodes(out, cnode.inputs, H, i, col, subbias)
        \o <<add_node(adder_inputs(out, i, col), <<adder_edge(out, i)>>)>>

\* split_gemm_into_chunks without the early return for a 1x1 grid
split_gemm_always_split(cnode, H, W) ==
    LET submatrices == split_matrix_into_chunks(cnode.matrix, H, W)
        subbiases == split_vector_into_chunks(cnode.biases, W)
        out == cnode.outputs[1]
        cat_inputs == [i \in 1..Len(submatrices) |-> adder_edge(out, i - 1)]
        nodes == Flatten([i \in 1..Len(submatrices) |->
                             gemm_column(cnode, H, i - 1, submatrices[i], subbiases[i])])
                 \o <<cat_node(cat_inputs, cnode.outputs, 0)>>
    IN  IF Len(subbiases) < Len(submatrices)
        THEN Raise("IndexError")
        ELSE Return(tag_all(nodes, "gemm"))

\* split_gemm_into_chunks(cnode,H,W)
split_gemm_into_chunks(cnode, H, W) ==
    LET submatrices == split_matrix_into_chunks(cnode.matrix, H, W)
        subbiases == split_vector_into_chunks(cnode.biases, W)
        out == cnode.outputs[1]
        cat_inputs == [i \in 1..Len(submatrices) |-> adder_edge(out, i - 1)]
        nodes == Flatten([i \in 1..Len(submatrices) |->
                             gemm_column(cnode, H, i - 1, submatrices[i], subbiases[i])])
                 \o <<cat_node(cat_inputs, cnode.outputs, 0)>>
    IN  IF Len(submatrices) = 1 /\ Len(submatrices[1]) = 1
        THEN Return(<<cnode>>)
        ELSE IF Len(subbiases) < Len(submatrices)
             THEN Raise("IndexError")
             ELSE Return(tag_all(nodes, "gemm"))

(***************************************************************************)
(* splitter.py: split_conv_into_chunks.                                    *)
(***************************************************************************)

\* cnode.kernel.shape[-1] of a K,C,Fy,Fx kernel
KernelSize(kernel) == Len(kernel[1][1][1])

\* conv_from_type that does not look at the kernel size
conv_from_type_always_conv(ksize) == "conv"

\* 'pointwise' for a 1x1 kernel, 'conv' otherwise
conv_from_type(ksize) == IF ksize = 1 THEN "pointwise" ELSE "conv"

\* the body of the loop over the column groups of split_conv_into_chunks:
\* the add node is emitted only for more than one row group
conv_column(cnode, H, i, col, subbias) ==
    LET out == cnode.outputs[1]
    IN  chunk_nodes(out, <<tplitz_edge(out)>>, H, i, col, subbias)
        \o (IF Len(col) > 1
            THEN <<add_node(adder_inputs(out, i, col), <<adder_edge(out, i)>>)>>
            ELSE <<>>)

\* cat_inputs of split_conv_into_chunks
conv_cat_inputs(out, submatrices) ==
    Flatten([i \in 1..Len(submatrices) |->
                IF Len(submatrices[i]) > 1
                THEN <<adder_edge(out, i - 1)>>
                ELSE adder_inputs(out, i - 1, submatrices[i])])

\* split_conv_into_chunks(cnode,H,W)
split_conv_into_chunks(cnode, H, W) ==
    LET submatrices == split_matrix_into_chunks(cnode.matrix, H, W)
        subbiases == split_vector_into_chunks(cnode.biases, W)
        ksize == KernelSize(cnode.kernel)
        out == cnode.outputs[1]
        nodes == <<toeplitzizer_node(cnode.inputs, <<tplitz_edge(out)>>, ksize, cnode.strides)>>
                 \o Flatten([i \in 1..Len(submatrices) |->
                                conv_column(cnode, H, i - 1, submatrices[i], subbiases[i])])
                 \o <<cat_node(conv_cat_inputs(out, submatrices), <<cat_edge(out)>>, -1)>>
                 \o <<reshaper_node(<<cat_edge(out)>>, cnode.outputs, Cols(cnode.matrix))>>
    IN  IF Len(submatrices) = 1 /\ Len(submatrices[1]) = 1
        THEN Return(<<[cnode EXCEPT !.from_type = conv_from_type(ksize)]>>)
        ELSE IF Len(subbiases) < Len(submatrices)
             THEN Raise("IndexError")
             ELSE Return(tag_all(nodes, conv_from_type(ksize)))

\* split_conv_into_channels(cnode,C): the nodes it builds are dropped by
\* the bare return at its end
split_conv_into_channels(cnode, C) ==
    LET kernels == split_kernel_into_channels(cnode.kernel, C)
    IN  IF Len(kernels) = 1
        THEN Return(<<cnode>>)
        ELSE IF cnode.biases # NoBias /\ Len(cnode.biases.data) < Len(kernels)
             THEN Raise("IndexError")
             ELSE Return(None)

(***************************************************************************)
(* compute.py: the Toeplitz transform.                                     *)
(***************************************************************************)

\* in_tensor.transpose(1,2,0): a C,H,W tensor as an H,W,C tensor
transpose_hwc(in_tensor) ==
    [h \in 1..Len(in_tensor[1]) |->
        [w \in 1..Len(in_tensor[1][1]) |->
            [c \in 1..Len(in_tensor) |-> in_tensor[c][h][w]]]]

\* np_pad that pads with 0 whatever the zero point
np_pad_zero(tensor, zero_point) ==
    LET Hin == Len(tensor)
        Win == Len(tensor[1])
        C == Len(tensor[1][1])
    IN  [h \in 1..(Hin + 2) |->
            [w \in 1..(Win + 2) |->
                IF h \in 2..(Hin + 1) /\ w \in 2..(Win + 1)
                THEN tensor[h - 1][w - 1]
                ELSE [c \in 1..C |-> 0]]]

\* np.pad(tensor,((1,1),(1,1),(0,0)), mode='constant', constant_values=zero_point)
np_pad(tensor, zero_point) ==
    LET Hin == Len(tensor)
        Win == Len(tensor[1])
        C == Len(tensor[1][1])
    IN  [h \in 1..(Hin + 2) |->
            [w \in 1..(Win + 2) |->
                IF h \in 2..(Hin + 1) /\ w \in 2..(Win + 1)
                THEN tensor[h - 1][w - 1]
                ELSE [c \in 1..C |-> zero_point]]]

\* get_recfield_for_pixel(r,c,matrix,ksize): the channel vector of the pixel
\* for ksize 1, the C,3,3 window for ksize 3, and None (the function falls
\* off its end) for every other ksize
get_recfield_for_pixel(r, c, matrix, ksize) ==
    IF ksize = 1 THEN matrix[r + 1][c + 1]
    ELSE IF ksize = 3
         THEN [ch \in 1..Len(matrix[1][1]) |->
                  [dy \in 1..3 |-> [dx \in 1..3 |-> matrix[r + dy][c + dx][ch]]]]
         ELSE None

\* recfield.transpose(1,2,0) of a C,3,3 window: a 3,3,C window
transpose_minor(recfield) ==
    [dy \in 1..3 |-> [dx \in 1..3 |-> [ch \in 1..Len(recfield) |-> recfield[ch][dy][dx]]]]

\* ndarray.flatten() of a 3-D window, row-major
flatten3(a) == Flatten([x \in 1..Len(a) |-> Flatten(a[x])])

\* toeplitzize_input(in_tensor,ksize,strides,channel_minor,zero_point); the
\* first iteration of the loops calls .flatten() on the None that
\* get_recfield_for_pixel returned
toeplitzize_input(in_tensor, ksize, strides, channel_minor, zero_point) ==
    LET tensor == transpose_hwc(in_tensor)
        H == Len(tensor) \div strides
        W == Len(tensor[1]) \div strides
        tensor2 == IF ksize = 3 THEN np_pad(tensor, zero_point) ELSE tensor
        recfield(r, c) == get_recfield_for_pixel(strides * r, strides * c, tensor2, ksize)
        row(r, c) == IF ksize = 3
                     THEN IF channel_minor
                          THEN flatten3(transpose_minor(recfield(r, c)))
                          ELSE flatten3(recfield(r, c))
                     ELSE recfield(r, c)
    IN  IF H * W > 0 /\ recfield(0, 0) = None
        THEN Raise("AttributeError")
        ELSE Return([k \in 1..(H * W) |-> row((k - 1) \div W, (k - 1) % W)])

(***************************************************************************)
(* The arguments the calls are made with.                                  *)
(***************************************************************************)

\* tile limits H, W and the channel limit C
Tiles == 1..MaxTile

\* weight matrices of every shape up to MaxDim x MaxDim: one family with
\* pairwise distinct entries, one with repeated, zero and negative entries
MatOf(rows, cols, seed) ==
    [r \in 1..rows |-> [c \in 1..cols |->
        IF seed = 0 THEN (r - 1) * cols + c ELSE ((r * r + c) % 3) - 1]]

Matrices == {MatOf(rows, cols, seed) : rows \in 1..MaxDim, cols \in 1..MaxDim, seed \in {0, 1}}

\* bias arrays: 1-D of length 0..MaxBias, and 0-D
BiasOf(n, seed) == Vec([k \in 1..n |-> IF seed = 0 THEN 10 * k ELSE 1 - k])

Biases == {BiasOf(n, seed) : n \in 0..MaxBias, seed \in {0, 1}} \cup {Scalar(7)}

\* K,C,Fy,Fx kernels
KernelOf(K, C, F) ==
    [k \in 1..K |-> [c \in 1..C |-> [y \in 1..F |-> [x \in 1..F |-> 100 * k + 10 * c + y + x]]]]

Kernels == {KernelOf(K, C, F) : K \in 1..2, C \in 1..MaxDim, F \in {1, 3}}

\* C,H,W input tensors
TensorOf(C, Hin, Win, seed) ==
    [c \in 1..C |-> [h \in 1..Hin |-> [w \in 1..Win |->
        IF seed = 0 THEN 100 * c + 10 * h + w ELSE (c + h * w) % 2]]]

Tensors == {TensorOf(C, Hin, Win, seed) :
                C \in 1..MaxChan, Hin \in 1..MaxImg, Win \in 1..MaxImg, seed \in {0, 1}}

\* primary output identifiers of the nodes handed to the emitters
OutputIds == {"y", "y_gemm_0-0"}

\* a matmul node of the graph
GemmNodes ==
    {[op |-> "gemm_node", inputs |-> <<"x">>, outputs |-> <<out>>,
      matrix |-> m, biases |-> b, from_type |-> Unset] :
        out \in OutputIds, m \in Matrices, b \in Biases}

\* a convolution node of the graph: the emitter reads its flattened weight
\* matrix, its bias, its stride and the last axis of its kernel
ConvNodes ==
    {[op |-> "conv_node", inputs |-> <<"x">>, outputs |-> <<"y">>,
      kernel |-> KernelOf(1, 1, F), matrix |-> m, biases |-> b, strides |-> st,
      channel_minor |-> FALSE, from_type |-> Unset] :
        F \in {1, 3}, m \in Matrices, b \in Biases, st \in {1, 2}}

\* convolution nodes for the channel splitter
ChannelConvNodes ==
    {[op |-> "conv_node", inputs |-> <<"x">>, outputs |-> <<"y">>,
      kernel |-> k, matrix |-> MatOf(1, 1, 0), biases |-> b, strides |-> 1,
      channel_minor |-> cm, from_type |-> Unset] :
        k \in Kernels, b \in {BiasOf(1, 0), BiasOf(MaxDim, 0), Scalar(7)}, cm \in BOOLEAN}

\* no sibling subgraph has been emitted
NoSibling == [out |-> "", edges |-> {}]

(***************************************************************************)
(* The state machine: one action per function of the library.  The        *)
(* functions are pure and share nothing, so a behaviour is one call made   *)
(* on the freshly imported library.                                        *)
(***************************************************************************)
Init ==
    /\ call = Called("none", <<>>, Return(None))
    /\ sibling = NoSibling

Call_split_matrix_into_chunks ==
    /\ fn = "none"
    /\ \E matrix \in Matrices, H \in Tiles, W \in Tiles :
        /\ call' = Called("split_matrix_into_chunks",
                         [matrix |-> matrix, H |-> H, W |-> W],
                         Return(split_matrix_into_chunks(matrix, H, W)))
        /\ UNCHANGED sibling

Call_split_shape_into_chunks ==
    /\ fn = "none"
    /\ \E rows \in 1..MaxDim, cols \in 1..MaxDim, H \in Tiles, W \in Tiles :
        /\ call' = Called("split_shape_into_chunks",
                         [shape |-> <<rows, cols>>, H |-> H, W |-> W],
                         Return(split_shape_into_chunks(<<rows, cols>>, H, W)))
        /\ UNCHANGED sibling

Call_split_vector_into_chunks ==
    /\ fn = "none"
    /\ \E vector \in Biases, W \in Tiles :
        /\ call' = Called("split_vector_into_chunks",
                         [vector |-> vector, W |-> W],
                         Return(split_vector_into_chunks(vector, W)))
        /\ UNCHANGED sibling

Call_split_kernel_into_channels ==
    /\ fn = "none"
    /\ \E kernel \in Kernels, C \in Tiles :
        /\ call' = Called("split_kernel_into_channels",
                         [kernel |-> kernel, C |-> C],
                         Return(split_kernel_into_channels(kernel, C)))
        /\ UNCHANGED sibling

Call_split_conv_into_channels ==
    /\ fn = "none"
    /\ \E cnode \in ChannelConvNodes, C \in Tiles :
        /\ call' = Called("split_conv_into_channels",
                         [cnode |-> cnode, C |-> C],
                         split_conv_into_channels(cnode, C))
        /\ UNCHANGED sibling

Call_split_gemm_into_chunks ==
    /\ fn = "none"
    /\ \E cnode \in GemmNodes, H \in Tiles, W \in Tiles :
        /\ call' = Called("split_gemm_into_chunks",
                         [cnode |-> cnode, H |-> H, W |-> W],
                         split_gemm_into_chunks(cnode, H, W))
        /\ UNCHANGED sibling

Call_split_conv_into_chunks ==
    /\ fn = "none"
    /\ \E cnode \in ConvNodes, H \in Tiles, W \in Tiles :
        /\ call' = Called("split_conv_into_chunks",
                         [cnode |-> cnode, H |-> H, W |-> W],
                         split_conv_into_chunks(cnode, H, W))
        /\ UNCHANGED sibling

Call_toeplitzize_input ==
    /\ fn = "none"
    /\ \E in_tensor \in Tensors, ksize \in 1..MaxKsize, strides \in 1..MaxStride,
           channel_minor \in BOOLEAN, zero_point \in {0, 128} :
        /\ call' = Called("toeplitzize_input",
                         [in_tensor |-> in_tensor, ksize |-> ksize, strides |-> strides,
                          channel_minor |-> channel_minor, zero_point |-> zero_point],
                         toeplitzize_input(in_tensor, ksize, strides, channel_minor, zero_point))
        /\ UNCHANGED sibling

Next ==
    \/ Call_split_matrix_into_chunks
    \/ Call_split_shape_into_chunks
    \/ Call_split_vector_into_chunks
    \/ Call_split_kernel_into_channels
    \/ Call_split_conv_into_channels
    \/ Call_split_gemm_into_chunks
    \/ Call_split_conv_into_chunks
    \/ Call_toeplitzize_input

Spec == Init /\ [][Next]_vars

(***************************************************************************)
(* Properties of the tilers.                                               *)
(***************************************************************************)

\* np.vstack of the row chunks of one column group
VStack(chunks) == Flatten(chunks)

\* np.hstack of column groups of equal height
HStack(groups) ==
    [r \in 1..Rows(groups[1]) |-> Flatten([i \in 1..Len(groups) |-> groups[i][r]])]

\* the matrix a chunk grid stands for
Reassemble(grid) == HStack([i \in 1..Len(grid) |-> VStack(grid[i])])

\* ceil(a/b), computed without the tilers' own formula
Ceil(a, b) == (a + b - 1) \div b

\* C1: reassembling the grid returned by split_matrix_into_chunks (row
\* chunks of each column group stacked vertically, column groups placed
\* side by side) gives the matrix back exactly
C1_TilingExact ==
    fn = "split_matrix_into_chunks" => Reassemble(ret.value) = args.matrix

\* C1 witness: a 3x3 matrix split into a 2x2 grid with partial last chunks
C1_Witness ==
    /\ fn = "split_matrix_into_chunks"
    /\ Shape(args.matrix) = <<3, 3>> /\ args.H = 2 /\ args.W = 2
    /\ Len(ret.value) = 2 /\ Len(ret.value[2]) = 2
    /\ Reassemble(ret.value) = args.matrix

\* C2: split_matrix_into_chunks returns ceil(cols/W) column groups of
\* ceil(rows/H) chunks each, chunk (i,j) has shape
\* (min(H, rows - H*j), min(W, cols - W*i)), and a matrix that fits both
\* limits comes back as the only chunk of a 1x1 grid
C2_GridShape ==
    fn = "split_matrix_into_chunks" =>
        LET rows == Rows(args.matrix)
            cols == Cols(args.matrix)
            grid == ret.value
        IN  /\ Len(grid) = Ceil(cols, args.W)
            /\ \A i \in 1..Len(grid) :
                  /\ Len(grid[i]) = Ceil(rows, args.H)
                  /\ \A j \in 1..Len(grid[i]) :
                        /\ Shape(grid[i][j]) = <<Min(args.H, rows - args.H * (j - 1)),
                                                 Min(args.W, cols - args.W * (i - 1))>>
                        /\ Rows(grid[i][j]) <= args.H
                        /\ Cols(grid[i][j]) <= args.W
            /\ (rows <= args.H /\ cols <= args.W) => grid = <<<<args.matrix>>>>

\* C2 witness: a 2x3 matrix under H=3, W=2: two column groups of widths 2
\* and 1, one chunk each
C2_Witness ==
    /\ fn = "split_matrix_into_chunks"
    /\ Shape(args.matrix) = <<2, 3>> /\ args.H = 3 /\ args.W = 2
    /\ Len(ret.value) = 2 /\ Len(ret.value[1]) = 1
    /\ Shape(ret.value[2][1]) = <<2, 1>>

\* the .shape of every chunk of a grid of matrices
ShapesOf(grid) == [i \in 1..Len(grid) |-> [j \in 1..Len(grid[i]) |-> Shape(grid[i][j])]]

\* C3: split_shape_into_chunks((rows,cols),H,W) is the grid of the shapes of
\* the chunks split_matrix_into_chunks makes of any matrix of that shape
C3_ShapeParity ==
    fn = "split_shape_into_chunks" =>
        \A m \in Matrices :
            Shape(m) = args.shape =>
                ret.value = ShapesOf(split_matrix_into_chunks(m, args.H, args.W))

\* C3 witness: shape (3,2) under H=2, W=2: rows not a multiple of H, cols
\* an exact multiple of W
C3_Witness ==
    /\ fn = "split_shape_into_chunks"
    /\ args.shape = <<3, 2>> /\ args.H = 2 /\ args.W = 2
    /\ ret.value = <<<<(<<2, 2>>), (<<1, 2>>)>>>>

\* C4: for a 1-D bias as long as the matrix is wide, split_vector_into_chunks
\* returns one chunk per column group of split_matrix_into_chunks, chunk i
\* as long as group i is wide (full chunks of W, only the last shorter, no
\* padding), and the chunks concatenated give the bias back
C4_VectorAligned ==
    (fn = "split_vector_into_chunks" /\ Len(args.vector.shape) = 1
        /\ Len(args.vector.data) >= 1) =>
        LET chunks == ret.value
            n == Len(args.vector.data)
        IN  /\ Flatten([k \in 1..Len(chunks) |-> chunks[k].data]) = args.vector.data
            /\ \A k \in 1..Len(chunks) :
                  /\ chunks[k].shape = <<Len(chunks[k].data)>>
                  /\ Len(chunks[k].data) <= args.W
                  /\ k < Len(chunks) => Len(chunks[k].data) = args.W
            /\ \A m \in Matrices, H \in Tiles :
                  Cols(m) = n =>
                      LET grid == split_matrix_into_chunks(m, H, args.W)
                      IN  /\ Len(chunks) = Len(grid)
                          /\ \A i \in 1..Len(grid) :
                                Len(chunks[i].data) = Cols(grid[i][1])

\* C4 witness: a bias of length 3 under W=2 gives chunks of lengths 2 and 1
C4_Witness ==
    /\ fn = "split_vector_into_chunks"
    /\ args.vector.shape = <<3>> /\ args.W = 2
    /\ Len(ret.value) = 2
    /\ Len(ret.value[1].data) = 2 /\ Len(ret.value[2].data) = 1

(***************************************************************************)
(* Execution of an emitted node list on 1-D values: a slicer node takes    *)
(* the positions [col_lim[0], col_lim[1]) of its input, clipped to its     *)
(* length; a gemm node multiplies its input by its matrix and adds its     *)
(* bias if it has one; an add node sums its inputs; a cat node joins them  *)
(* in order.                                                               *)
(***************************************************************************)
RECURSIVE SumTo(_, _)
SumTo(f, n) == IF n = 0 THEN 0 ELSE f[n] + SumTo(f, n - 1)

\* the row vector x times the matrix m
VecMat(x, m) ==
    [c \in 1..Cols(m) |-> SumTo([r \in 1..Rows(m) |-> x[r] * m[r][c]], Rows(m))]

\* elementwise sum of two vectors of equal length
VecAdd(a, b) == [k \in 1..Len(a) |-> a[k] + b[k]]

\* the value a node puts on its output edge, env holding its inputs' values
eval_node(node, env) ==
    LET in(k) == env[node.inputs[k]]
        n == Len(node.inputs)
    IN  CASE node.op = "slicer_node" -> PySlice(in(1), node.col_lim[1], node.col_lim[2])
          [] node.op = "gemm_node" ->
                 IF node.biases = NoBias
                 THEN VecMat(in(1), node.matrix)
                 ELSE VecAdd(VecMat(in(1), node.matrix), node.biases.data)
          [] node.op = "add_node" ->
                 [k \in 1..Len(in(1)) |-> SumTo([t \in 1..n |-> in(t)[k]], n)]
          [] node.op = "cat_node" -> Flatten([t \in 1..n |-> in(t)])

\* the value on an edge after the first k nodes of the list have run in
\* list order on the given input edge values: the value its last producer
\* among them computed from the values its inputs had when it ran
RECURSIVE ValueAt(_, _, _, _)
ValueAt(nodes, inputs, edge, k) ==
    LET producers == {j \in 1..k : nodes[j].outputs[1] = edge}
    IN  IF producers = {} THEN inputs[edge]
        ELSE LET j == CHOOSE p \in producers : \A q \in producers : q <= p
                 node == nodes[j]
                 env == [e \in {node.inputs[t] : t \in 1..Len(node.inputs)} |->
                            ValueAt(nodes, inputs, e, j - 1)]
             IN  eval_node(node, env)

\* the value on an edge after the whole list has run
forward(nodes, inputs, edge) == ValueAt(nodes, inputs, edge, Len(nodes))

\* input vectors of length n: the zero vector, the unit vectors and one
\* vector with entries of both signs
InputVectors(n) ==
    {[k \in 1..n |-> IF k = j THEN 1 ELSE 0] : j \in 0..n}
        \cup {[k \in 1..n |-> 2 * k - 3]}

(***************************************************************************)
(* Properties of the GEMM emitter.                                         *)
(***************************************************************************)

\* the call split a GEMM node whose 1-D bias is as long as its matrix is wide
GemmSplitCall ==
    /\ fn = "split_gemm_into_chunks"
    /\ args.cnode.biases.shape = <<Cols(args.cnode.matrix)>>
    /\ (Rows(args.cnode.matrix) > args.H \/ Cols(args.cnode.matrix) > args.W)

\* C5: for a matrix with rows > H or cols > W and a bias of length cols,
\* running the node list of split_gemm_into_chunks on any input vector X of
\* length rows leaves X*M + b on the original output edge
C5_GemmEquivalence ==
    GemmSplitCall =>
        /\ ret.kind = "return"
        /\ \A X \in InputVectors(Rows(args.cnode.matrix)) :
              forward(ret.value, args.cnode.inputs[1] :> X, args.cnode.outputs[1])
                  = VecAdd(VecMat(X, args.cnode.matrix), args.cnode.biases.data)

\* C5 witness: a 3x3 matrix under H=2, W=2 with a bias of length 3; the node
\* list maps X = (2,-1,2) to X*M + b
C5_Witness ==
    /\ GemmSplitCall
    /\ args.cnode.matrix = MatOf(3, 3, 0) /\ args.H = 2 /\ args.W = 2
    /\ args.cnode.biases = BiasOf(3, 0)
    /\ ret.kind = "return"
    /\ forward(ret.value, args.cnode.inputs[1] :> <<2, -1, 2>>, args.cnode.outputs[1])
           = <<2 - 4 + 14 + 10, 4 - 5 + 16 + 20, 6 - 6 + 18 + 30>>

\* every edge identifier appearing in a node list
EdgesOf(nodes) ==
    UNION {{nodes[k].inputs[t] : t \in 1..Len(nodes[k].inputs)}
           \cup {nodes[k].outputs[t] : t \in 1..Len(nodes[k].outputs)} : k \in 1..Len(nodes)}

\* the edge identifiers a returned node list adds to those of the node
GeneratedEdges(nodes, cnode) == EdgesOf(nodes) \ EdgesOf(<<cnode>>)

\* how many nodes of the list are of class op
CountOp(nodes, op) == Cardinality({k \in 1..Len(nodes) : nodes[k].op = op})

\* the nodes of the list of class op, in list order
NodesOf(nodes, op) == SelectSeq(nodes, LAMBDA n : n.op = op)

\* the call was made on a node whose matrix fits both tile limits
FitsCall ==
    /\ fn \in {"split_gemm_into_chunks", "split_conv_into_chunks"}
    /\ Rows(args.cnode.matrix) <= args.H
    /\ Cols(args.cnode.matrix) <= args.W

\* C6: when the matrix has rows <= H and cols <= W, both emitters return a
\* one-element list holding the node they were given (the convolution
\* emitter having set its provenance tag): no node is created and no edge
\* identifier is generated
C6_Passthrough ==
    FitsCall =>
        /\ ret.kind = "return"
        /\ Len(ret.value) = 1
        /\ [ret.value[1] EXCEPT !.from_type = args.cnode.from_type] = args.cnode
        /\ fn = "split_gemm_into_chunks" => ret.value[1] = args.cnode
        /\ GeneratedEdges(ret.value, args.cnode) = {}

\* C6 witness: a GEMM node with a 2x3 matrix under H=2, W=3 comes back alone
C6_Witness ==
    /\ FitsCall
    /\ fn = "split_gemm_into_chunks"
    /\ Shape(args.cnode.matrix) = <<2, 3>> /\ args.H = 2 /\ args.W = 3
    /\ ret = Return(<<args.cnode>>)

\* C7 as claimed: split_kernel_into_channels returns the unsplit kernel as a
\* single-element list when in_channels <= C, and ceil(in_channels/C) groups
\* of at most C channels each when in_channels > C
C7_ChannelGroups ==
    fn = "split_kernel_into_channels" =>
        /\ InChannels(args.kernel) <= args.C => ret.value = <<args.kernel>>
        /\ InChannels(args.kernel) > args.C =>
              /\ Len(ret.value) = Ceil(InChannels(args.kernel), args.C)
              /\ \A i \in 1..Len(ret.value) : InChannels(ret.value[i]) <= args.C

\* C8 as claimed: for rows <= H and cols > W the GEMM emitter gives one
\* slicer and one gemm node per column group, no add node, and one cat node
\* fed by the per-group gemm outputs in column order
C8_NoAddNodes ==
    (GemmSplitCall /\ Rows(args.cnode.matrix) <= args.H
        /\ Cols(args.cnode.matrix) > args.W) =>
        LET groups == Ceil(Cols(args.cnode.matrix), args.W)
            out == args.cnode.outputs[1]
        IN  /\ ret.kind = "return"
            /\ CountOp(ret.value, "slicer_node") = groups
            /\ CountOp(ret.value, "gemm_node") = groups
            /\ CountOp(ret.value, "add_node") = 0
            /\ CountOp(ret.value, "cat_node") = 1
            /\ NodesOf(ret.value, "cat_node")[1].inputs
                   = [i \in 1..groups |-> gemm_edge(out, i - 1, 0)]

\* C8 amended: for rows <= H and cols > W the GEMM emitter gives one slicer
\* and one gemm node per column group, one add node per column group whose
\* only input is the gemm output of the group, and one cat node fed by the
\* add outputs in column order
C8_SingleInputAdds ==
    (GemmSplitCall /\ Rows(args.cnode.matrix) <= args.H
        /\ Cols(args.cnode.matrix) > args.W) =>
        LET groups == Ceil(Cols(args.cnode.matrix), args.W)
            out == args.cnode.outputs[1]
            adds == NodesOf(ret.value, "add_node")
        IN  /\ ret.kind = "return"
            /\ CountOp(ret.value, "slicer_node") = groups
            /\ CountOp(ret.value, "gemm_node") = groups
            /\ Len(adds) = groups
            /\ \A i \in 1..groups :
                  /\ adds[i].inputs = <<gemm_edge(out, i - 1, 0)>>
                  /\ adds[i].outputs = <<adder_edge(out, i - 1)>>
            /\ CountOp(ret.value, "cat_node") = 1
            /\ NodesOf(ret.value, "cat_node")[1].inputs
                   = [i \in 1..groups |-> adder_edge(out, i - 1)]

\* C8 witness: a 1x3 matrix under H=1, W=1 with a bias of length 3: three
\* column groups of one row group each, ten nodes in all
C8_Witness ==
    /\ GemmSplitCall
    /\ Shape(args.cnode.matrix) = <<1, 3>> /\ args.H = 1 /\ args.W = 1
    /\ ret.kind = "return"
    /\ Len(ret.value) = 10
    /\ CountOp(ret.value, "add_node") = 3

(***************************************************************************)
(* Properties of the Toeplitz transform.                                   *)
(***************************************************************************)

\* C10 as claimed: toeplitzize_input with a kernel size other than 1 or 3
\* fails with UnsupportedKernelSize for every input and never returns a
\* matrix
C10_UnsupportedKernelSize ==
    (fn = "toeplitzize_input" /\ args.ksize \notin {1, 3}) =>
        /\ ret.kind = "raise"
        /\ ret.error = "UnsupportedKernelSize"

(***************************************************************************)
(* Lowering two nodes of one graph: the first node is lowered, then a      *)
(* second node with another primary output identifier; sibling keeps the   *)
(* edge identifiers generated for the first.                               *)
(***************************************************************************)

\* output identifiers that are prefixes of one another or end in a role suffix
NamingIds ==
    {"y", "z", "y_cat", "y_tplitz", "y_adder_0", "y_gemm_0", "y_gemm_0-0", "y_slicer_0-0"}

\* a GEMM node and a convolution node writing to the edge out
NamingGemmNode(out) ==
    [op |-> "gemm_node", inputs |-> <<"x">>, outputs |-> <<out>>,
     matrix |-> MatOf(MaxDim, MaxDim, 0), biases |-> BiasOf(MaxDim, 0), from_type |-> Unset]

NamingConvNode(out) ==
    [op |-> "conv_node", inputs |-> <<"x">>, outputs |-> <<out>>,
     kernel |-> KernelOf(1, 1, 3), matrix |-> MatOf(MaxDim, MaxDim, 0),
     biases |-> BiasOf(MaxDim, 0), strides |-> 1, channel_minor |-> FALSE,
     from_type |-> Unset]

\* the emitter called for a node of the given kind
Lowered(kind, out, H, W) ==
    IF kind = "gemm"
    THEN Called("split_gemm_into_chunks",
                [cnode |-> NamingGemmNode(out), H |-> H, W |-> W],
                split_gemm_into_chunks(NamingGemmNode(out), H, W))
    ELSE Called("split_conv_into_chunks",
                [cnode |-> NamingConvNode(out), H |-> H, W |-> W],
                split_conv_into_chunks(NamingConvNode(out), H, W))

LowerFirst ==
    /\ fn = "none"
    /\ \E kind \in {"gemm", "conv"}, out \in NamingIds, H \in Tiles, W \in Tiles :
        /\ call' = Lowered(kind, out, H, W)
        /\ UNCHANGED sibling

LowerSecond ==
    /\ fn # "none"
    /\ sibling = NoSibling
    /\ \E kind \in {"gemm", "conv"}, out \in NamingIds, H \in Tiles, W \in Tiles :
        /\ out # args.cnode.outputs[1]
        /\ sibling' = [out |-> args.cnode.outputs[1],
                       edges |-> GeneratedEdges(ret.value, args.cnode)]
        /\ call' = Lowered(kind, out, H, W)

NextNaming == LowerFirst \/ LowerSecond

SpecNaming == Init /\ [][NextNaming]_vars

\* C9: the edge identifiers generated for two nodes with different primary
\* output identifiers have no identifier in common
C9_NamingDisjoint ==
    (sibling # NoSibling /\ sibling.out # args.cnode.outputs[1]) =>
        sibling.edges \cap GeneratedEdges(ret.value, args.cnode) = {}

\* C9 witness: node "y" was split and generated the edge "y_gemm_0-0"; the
\* node writing to "y_gemm_0-0" was split after it
C9_Witness ==
    /\ sibling.out = "y"
    /\ "y_gemm_0-0" \in sibling.edges
    /\ args.cnode.outputs[1] = "y_gemm_0-0"
    /\ "y_gemm_0-0_gemm_0-0" \in GeneratedEdges(ret.value, args.cnode)
    /\ "y_gemm_0-0_cat" \in GeneratedEdges(ret.value, args.cnode)

(***************************************************************************)
(* Properties of both emitters: bias validation, provenance, bias          *)
(* placement and the well-formedness of the emitted subgraph.              *)
(***************************************************************************)

\* the call was made on one of the two chunk emitters
EmitterCall == fn \in {"split_gemm_into_chunks", "split_conv_into_chunks"}

\* the emitter took the split path: the grid of the matrix is not 1x1
SplitCall ==
    /\ EmitterCall
    /\ (Rows(args.cnode.matrix) > args.H \/ Cols(args.cnode.matrix) > args.W)

\* C11 as claimed: when the 1-D bias of the node is shorter or longer than
\* its weight matrix is wide, split_gemm_into_chunks and
\* split_conv_into_chunks fail and return no node list
C11_ShapeMismatch ==
    (EmitterCall /\ Len(args.cnode.biases.shape) = 1
        /\ Len(args.cnode.biases.data) # Cols(args.cnode.matrix)) =>
        ret.kind = "raise"

\* C12: every node split_conv_into_chunks returns, on the passthrough path
\* and on the split path, is tagged 'pointwise' for kernel size 1 and 'conv'
\* otherwise; every node split_gemm_into_chunks returns on the split path
\* is tagged 'gemm'
C12_Provenance ==
    /\ (fn = "split_conv_into_chunks" /\ ret.kind = "return") =>
          \A k \in 1..Len(ret.value) :
              ret.value[k].from_type =
                  IF KernelSize(args.cnode.kernel) = 1 THEN "pointwise" ELSE "conv"
    /\ (fn = "split_gemm_into_chunks" /\ SplitCall /\ ret.kind = "return") =>
          \A k \in 1..Len(ret.value) : ret.value[k].from_type = "gemm"

\* C12 witness: a 1x1 convolution with a 3x3 weight matrix under H=2, W=2
\* is split into a toeplitzizer, 4 slicers, 4 gemms, 2 adds, a cat and a
\* reshaper, all of them tagged 'pointwise'
C12_Witness ==
    /\ fn = "split_conv_into_chunks" /\ SplitCall
    /\ KernelSize(args.cnode.kernel) = 1
    /\ Shape(args.cnode.matrix) = <<3, 3>> /\ args.H = 2 /\ args.W = 2
    /\ ret.kind = "return"
    /\ Len(ret.value) = 13
    /\ {ret.value[k].from_type : k \in 1..Len(ret.value)} = {"pointwise"}

(***************************************************************************)
(* Properties of the Toeplitz transform.                                   *)
(***************************************************************************)

\* C13: for kernel size 3 and stride s, row r*W_out + c of the output of
\* toeplitzize_input is the 3x3xC receptive field centred on input pixel
\* (s*r, s*c), zero_point standing at every position outside the input,
\* flattened channel-major (channel_minor false) or channel-innermost
\* (channel_minor true); for kernel size 1 it is the channel vector of
\* pixel (s*r, s*c)
C13_ReceptiveField ==
    (fn = "toeplitzize_input" /\ args.ksize \in {1, 3}) =>
        LET T == args.in_tensor
            s == args.strides
            C == Len(T)
            Hin == Len(T[1])
            Win == Len(T[1][1])
            Hout == Hin \div s
            Wout == Win \div s
            at(ch, y, x) == IF y \in 0..(Hin - 1) /\ x \in 0..(Win - 1)
                            THEN T[ch + 1][y + 1][x + 1]
                            ELSE args.zero_point
            pos(ch, dy, dx) == IF args.channel_minor
                               THEN (dy * 3 + dx) * C + ch
                               ELSE ch * 9 + dy * 3 + dx
        IN  /\ ret.kind = "return"
            /\ Len(ret.value) = Hout * Wout
            /\ \A r \in 0..(Hout - 1), c \in 0..(Wout - 1) :
                  LET row == ret.value[r * Wout + c + 1]
                  IN  IF args.ksize = 3
                      THEN /\ Len(row) = 9 * C
                           /\ \A ch \in 0..(C - 1), dy \in 0..2, dx \in 0..2 :
                                 row[pos(ch, dy, dx) + 1]
                                     = at(ch, s * r + dy - 1, s * c + dx - 1)
                      ELSE row = [ch \in 1..C |-> T[ch][s * r + 1][s * c + 1]]

\* C13 witness: a 2-channel 4x4 tensor, kernel size 3, stride 2, channel
\* innermost, zero point 128: the last output row is the field centred on
\* pixel (2,2), whose bottom row and right column are all padding; the
\* first output row has padding in its top row and left column
C13_Witness ==
    /\ fn = "toeplitzize_input"
    /\ args.in_tensor = TensorOf(2, 4, 4, 0)
    /\ args.ksize = 3 /\ args.strides = 2 /\ args.channel_minor /\ args.zero_point = 128
    /\ ret.kind = "return"
    /\ Len(ret.value) = 4
    /\ ret.value[1] = <<128, 128, 128, 128, 128, 128,
                        128, 128, 111, 211, 112, 212,
                        128, 128, 121, 221, 122, 222>>
    /\ ret.value[4] = <<122, 222, 123, 223, 124, 224,
                        132, 232, 133, 233, 134, 234,
                        142, 242, 143, 243, 144, 244>>

(***************************************************************************)
(* Bias placement and well-formedness of the emitted subgraph.             *)
(***************************************************************************)

\* the emitter took the split path and returned a node list
SplitReturned == SplitCall /\ ret.kind = "return"

\* C14: on the split path of both emitters the gemm nodes are, in list
\* order, those of the chunk grid, column group by column group; in every
\* column group i the gemm node of the last row group carries bias chunk i
\* and no other gemm node carries a bias; slicer, add, cat, toeplitzizer
\* and reshaper nodes have no bias at all
C14_BiasOnLastGemm ==
    SplitReturned =>
        LET grid == split_matrix_into_chunks(args.cnode.matrix, args.H, args.W)
            subbiases == split_vector_into_chunks(args.cnode.biases, args.W)
            gemms == NodesOf(ret.value, "gemm_node")
            before(i) == Len(Flatten([t \in 1..(i - 1) |-> grid[t]]))
        IN  /\ Len(gemms) = before(Len(grid) + 1)
            /\ \A i \in 1..Len(grid) :
                  \A j \in 1..Len(grid[i]) :
                      LET g == gemms[before(i) + j]
                      IN  /\ g.matrix = grid[i][j]
                          /\ g.biases = IF j = Len(grid[i]) THEN subbiases[i] ELSE NoBias
            /\ \A k \in 1..Len(ret.value) :
                  ret.value[k].op # "gemm_node" => "biases" \notin DOMAIN ret.value[k]

\* C14 witness: a 3x3 matrix under H=2, W=2 with bias (10,20,30): of the
\* four gemm nodes the second carries (10,20) and the fourth (30)
C14_Witness ==
    /\ SplitReturned /\ fn = "split_gemm_into_chunks"
    /\ Shape(args.cnode.matrix) = <<3, 3>> /\ args.H = 2 /\ args.W = 2
    /\ args.cnode.biases = BiasOf(3, 0)
    /\ LET gemms == NodesOf(ret.value, "gemm_node")
       IN  /\ Len(gemms) = 4
           /\ gemms[1].biases = NoBias
           /\ gemms[2].biases = Vec(<<10, 20>>)
           /\ gemms[3].biases = NoBias
           /\ gemms[4].biases = Vec(<<30>>)

\* the edge identifiers of a list of identifiers
EdgeSet(edges) == {edges[t] : t \in 1..Len(edges)}

\* C15: the node list of the split path of either emitter is a drop-in
\* replacement of the node: no two nodes have an output edge in common,
\* every input edge of a node is an input edge of the original node or an
\* output edge of a node earlier in the list, and the outputs of the last
\* node are the outputs of the original node
C15_WellFormed ==
    SplitReturned =>
        LET nodes == ret.value
            n == Len(nodes)
        IN  /\ \A k \in 1..n, l \in 1..n :
                  k # l => EdgeSet(nodes[k].outputs) \cap EdgeSet(nodes[l].outputs) = {}
            /\ \A k \in 1..n :
                  EdgeSet(nodes[k].inputs)
                      \subseteq EdgeSet(args.cnode.inputs)
                                \cup UNION {EdgeSet(nodes[l].outputs) : l \in 1..(k - 1)}
            /\ nodes[n].outputs = args.cnode.outputs

\* C15 witness: the convolution emitter on a 3x4 matrix under H=2, W=2:
\* 13 nodes with 13 different output edges, the toeplitzizer first, reading
\* the node's input, the reshaper last, writing the node's output
C15_Witness ==
    /\ SplitReturned /\ fn = "split_conv_into_chunks"
    /\ Shape(args.cnode.matrix) = <<3, 4>> /\ args.H = 2 /\ args.W = 2
    /\ Len(ret.value) = 13
    /\ Cardinality(UNION {EdgeSet(ret.value[k].outputs) : k \in 1..13}) = 13
    /\ ret.value[1].op = "toeplitzizer_node" /\ ret.value[1].inputs = args.cnode.inputs
    /\ ret.value[12].inputs = <<"y_adder_0", "y_adder_1">>
    /\ ret.value[13].op = "reshaper_node" /\ ret.value[13].outputs = <<"y">>

====
